---- MODULE Spec2Model ----
(***************************************************************************)
(* docker-manager: the reconciliation pass served by /update, the          *)
(* configuration reload served by /reload, and the container engine they   *)
(* drive, as a state machine.  One step of a handler is one engine call    *)
(* or one read of the shared configuration.                                *)
(***************************************************************************)
EXTENDS Integers, Sequences, FiniteSets, TLC

(***************************************************************************)
(* Bounds of the model.                                                    *)
(***************************************************************************)
MaxPasses == 2          \* /update triggers served in one run
MaxReloads == 1         \* /reload triggers served in one run
MaxExternal == 1        \* changes to the engine made by somebody else
MaxVersion == 2         \* versions a registry publishes under one tag
MaxInitial == 2         \* containers the engine holds at start

Handlers == {1}         \* goroutines serving /update, one at a time

(***************************************************************************)
(* Go values.  reflect.DeepEqual tells a nil map or slice from an empty    *)
(* one and never equates values of two types, so every map and slice       *)
(* carries its dynamic type and whether it is nil.                         *)
(***************************************************************************)
NilOf(t) == [type |-> t, isnil |-> TRUE, elems |-> <<>>]
SliceOf(t, s) == [type |-> t, isnil |-> FALSE, elems |-> s]
MapOf(t, S) == [type |-> t, isnil |-> FALSE, elems |-> S]
NilMapOf(t) == [type |-> t, isnil |-> TRUE, elems |-> {}]

DeepEqual(a, b) ==
    /\ a.type = b.type
    /\ a.isnil = b.isnil
    /\ a.elems = b.elems

(***************************************************************************)
(* The configuration file (pkg/config/format.go).                          *)
(***************************************************************************)
PortBinding(port, hostPort) ==
    [Port |-> port, Protocol |-> "tcp", HostIP |-> "0.0.0.0", HostPort |-> hostPort]

ContainerConfig(name, image, pbs, env, cmd) ==
    [Image |-> image, Name |-> name, PortBindings |-> pbs, Env |-> env, Cmd |-> cmd]

NoCmd == NilOf("[]string")
Env1 == SliceOf("[]string", <<"key1=value1">>)
Env2 == SliceOf("[]string", <<"key1=value2">>)

\* web as the README declares nginx_1, and variants of it
WebBase == ContainerConfig("web", "nginx:latest", <<PortBinding("80", "8090")>>, Env1, NoCmd)
WebEnv == [WebBase EXCEPT !.Env = Env2]
WebPort == [WebBase EXCEPT !.PortBindings = <<PortBinding("80", "8091")>>]
WebCmd == [WebBase EXCEPT !.Cmd = SliceOf("[]string", <<"nginx", "-g", "daemon off;">>)]
WebBare == [WebBase EXCEPT !.PortBindings = <<>>]
Db == ContainerConfig("db", "redis:latest", <<PortBinding("6379", "6379")>>, Env1, NoCmd)
Tmp == ContainerConfig("tmp", "nginx:latest", <<PortBinding("80", "9000")>>, Env1, NoCmd)
\* web with an image reference that names no tag
WebLoose == [WebBase EXCEPT !.Image = "nginx"]

ContainerLists ==
    { <<WebBase>>, <<WebBase, Db>>, <<Db, WebPort>>, <<WebEnv>>, <<WebCmd>>, <<WebBare, Db>>,
      <<WebLoose>> }

Configs ==
    { [AppConfig |-> [UpdateCheck |-> u, RemoveUnwantedContainers |-> r], Containers |-> l] :
        u \in BOOLEAN, r \in BOOLEAN, l \in ContainerLists }

ImageRefs == {"nginx:latest", "redis:latest"}

\* references that name no tag: the engine pulls and creates from the tag latest
Untagged == {"nginx"}

RepoTag(ref) == IF ref \in Untagged THEN ref \o ":latest" ELSE ref

(***************************************************************************)
(* ConfigToDockerConfig: nat.NewPort joins port and protocol, the port set *)
(* and the port map are made (never nil), and the result is appended to    *)
(* the package-level slice, which is what the function returns.            *)
(***************************************************************************)
NewPort(proto, port) == port \o "/" \o proto

PortSetOf(pbs) ==
    MapOf("nat.PortSet", { NewPort(pbs[k].Protocol, pbs[k].Port) : k \in DOMAIN pbs })

\* portMap[port] = ..., so the last binding declared for a port is the one kept
PortMapOf(pbs) ==
    MapOf("nat.PortMap",
          { <<NewPort(pbs[k].Protocol, pbs[k].Port),
              <<[HostIP |-> pbs[k].HostIP, HostPort |-> pbs[k].HostPort]>>>> :
              k \in { k \in DOMAIN pbs :
                        \A m \in DOMAIN pbs :
                            NewPort(pbs[m].Protocol, pbs[m].Port) = NewPort(pbs[k].Protocol, pbs[k].Port)
                                => m <= k } })

localContainer(c) ==
    [Image |-> c.Image, Name |-> c.Name, ExposedPorts |-> PortSetOf(c.PortBindings),
     PortBindings |-> PortMapOf(c.PortBindings), Env |-> c.Env, Cmd |-> c.Cmd]

ConfigToDockerConfig(acc, config) ==
    acc \o [k \in DOMAIN config.Containers |-> localContainer(config.Containers[k])]

(***************************************************************************)
(* The container engine.  A container is created from a local image only,  *)
(* names are unique, and the list shows the newest container first.        *)
(***************************************************************************)
EngineName(name) == "/" \o name

ImageId(ref, v) == <<ref, v>>

NewContainer(id, config, imageId) ==
    [ID |-> id, Names |-> <<EngineName(config.Name)>>, Name |-> config.Name,
     Image |-> config.Image, ImageID |-> imageId,
     ExposedPorts |-> config.ExposedPorts, PortBindings |-> config.PortBindings,
     Env |-> config.Env, Cmd |-> config.Cmd, Running |-> FALSE]

\* what ContainerInspect answers: the exposed ports are omitted from the JSON
\* when empty (omitempty) and so decode to a nil map, and the command decodes
\* into the field's type, strslice.StrSlice
ContainerInspect(c) ==
    [Image |-> c.ImageID,
     Config |-> [Image |-> c.Image,
                 ExposedPorts |-> IF c.ExposedPorts.isnil \/ c.ExposedPorts.elems = {}
                                    THEN NilMapOf("nat.PortSet") ELSE c.ExposedPorts,
                 Cmd |-> [c.Cmd EXCEPT !.type = "strslice.StrSlice"]],
     HostConfig |-> [PortBindings |-> c.PortBindings]]

IndexOfId(list, id) ==
    IF \E k \in DOMAIN list : list[k].ID = id
      THEN CHOOSE k \in DOMAIN list : list[k].ID = id
      ELSE 0

\* the first container of the list whose Names[0] is "/"+name, 0 if none
IndexOfName(list, name) ==
    IF \E k \in DOMAIN list : list[k].Names[1] = EngineName(name)
      THEN CHOOSE k \in DOMAIN list :
             /\ list[k].Names[1] = EngineName(name)
             /\ \A m \in DOMAIN list : list[m].Names[1] = EngineName(name) => k <= m
      ELSE 0

Without(list, id) == SelectSeq(list, LAMBDA c : c.ID # id)

SetRunning(list, id, r) ==
    [k \in DOMAIN list |-> IF list[k].ID = id THEN [list[k] EXCEPT !.Running = r] ELSE list[k]]

VARIABLES
    cfg,            \* the active configuration (var cfg, guarded by cfgMu)
    containers,     \* package config's slice of converted specifications
    engine,         \* the engine's containers, newest first
    images,         \* the engine's local image index: tag -> version, 0 if absent
    nextId,         \* the next engine id
    alive,          \* FALSE once log.Fatalf has ended the process
    h,              \* each /update handler: its position and its locals
    passes,         \* /update triggers served
    reloads,        \* /reload triggers served
    externals,      \* external changes made
    rl,             \* the /reload handler: its last error and what its caller received
    mh,             \* the /metrics handler: its position and its locals
    tasks,          \* the goroutines fetching the stats, one per listed container
    statsChan,      \* chan types.StatsJSON
    errChan,        \* chan error
    wg,             \* the sync.WaitGroup's counter
    closer,         \* the goroutine that waits for the tasks and closes both channels
    dm              \* the metrics sink: the CPU gauge of each label set

reconcileVars ==
    <<cfg, containers, engine, images, nextId, alive, h, passes, reloads, externals, rl>>

metricsVars == <<mh, tasks, statsChan, errChan, wg, closer, dm>>

vars == <<cfg, containers, engine, images, nextId, alive, h, passes, reloads, externals, rl,
          mh, tasks, statsChan, errChan, wg, closer, dm>>

NoConfig ==
    [AppConfig |-> [UpdateCheck |-> FALSE, RemoveUnwantedContainers |-> FALSE], Containers |-> <<>>]

\* a handler between two triggers.  failedAt is the call that failed, if one
\* did; log, start, cfg0, end and prev record the
\* pass for the properties: the engine calls issued, the engine and the
\* configuration at the trigger, the engine at the response, and of the pass
\* before: the names it had declared, the names it created, whether the
\* configuration is still the same and whether the engine is as it left it
NoPass == [declared |-> {}, created |-> {}, same |-> FALSE, untouched |-> FALSE]

Idle ==
    [pc |-> "idle", desired |-> <<>>, removeUnwanted |-> FALSE, updateCheck |-> FALSE,
     snapshot |-> <<>>,
     i |-> 0, j |-> 0, created |-> FALSE, ctid |-> 0, delId |-> 0, site |-> "",
     runningImageID |-> <<>>, log |-> <<>>, start |-> <<>>, cfg0 |-> NoConfig,
     end |-> <<>>, prev |-> NoPass,
     response |-> "", status |-> 0, failedAt |-> "",
     k |-> 0, acc |-> <<>>]

InitialContainers ==
    { [NewContainer(1, localContainer(WebBase), ImageId("nginx:latest", 1)) EXCEPT !.Running = FALSE],
      [NewContainer(2, localContainer(Db), ImageId("redis:latest", 1)) EXCEPT !.Running = TRUE],
      [NewContainer(3, localContainer(Tmp), ImageId("nginx:latest", 1)) EXCEPT !.Running = TRUE] }

InitialEngines ==
    { s \in UNION { [1..n -> InitialContainers] : n \in 0..MaxInitial } :
        \A a, b \in DOMAIN s : a # b => s[a].ID # s[b].ID }

\* make(chan T, n); sent counts the values sent, for the properties
MakeChan(n) == [buf |-> <<>>, cap |-> n, closed |-> FALSE, sent |-> 0]

\* no scrape has been requested.  recorded lists the samples handed to the
\* sink and the tasks they came from, for the properties
NoScrape ==
    /\ mh = [pc |-> "idle", containers |-> <<>>, k |-> 0, recorded |-> <<>>,
             errorMsgs |-> <<>>, status |-> 0, body |-> ""]
    /\ tasks = <<>>
    /\ statsChan = MakeChan(0)
    /\ errChan = MakeChan(0)
    /\ wg = 0
    /\ closer = "none"
    /\ dm = <<>>

Init ==
    /\ NoScrape
    /\ cfg \in Configs
    /\ containers = <<>>
    /\ engine \in InitialEngines
    /\ images = [r \in ImageRefs |-> 1]
    /\ nextId = 4
    /\ alive = TRUE
    /\ h = [p \in Handlers |-> Idle]
    /\ passes = 0
    /\ reloads = 0
    /\ externals = 0
    /\ rl = [err |-> "", status |-> 0, body |-> ""]

(***************************************************************************)
(* Helpers of the handlers.                                                *)
(***************************************************************************)
Goto(p, r) == h' = [h EXCEPT ![p] = r]

Logged(r, op, id, name) ==
    Append(r.log, [op |-> op, id |-> id, name |-> name, site |-> r.site, i |-> r.i])

\* log.Fatalf: the message is logged and the process exits; nothing is written
\* to the trigger's caller (status stays 0)
Fatalf(p, msg) ==
    /\ alive' = FALSE
    /\ h' = [h EXCEPT ![p].pc = "fatal", ![p].response = msg, ![p].failedAt = h[p].pc]

NameOfId(list, id) ==
    IF IndexOfId(list, id) = 0 THEN "" ELSE list[IndexOfId(list, id)].Name

\* (a variant that compares with the first configuration only)
unwantedFirstOnly(container, configs) ==
    ~ (container.Names[1] = EngineName(configs[1].Name))

\* removeUnwantedContainers' inner loop: no configuration bears the container's name
unwanted(container, configs) ==
    ~ \E k \in DOMAIN configs : container.Names[1] = EngineName(configs[k].Name)

\* the next container of the listing, from position from on, that is to be removed
NextUnwanted(list, from, configs) ==
    IF \E k \in from..Len(list) : unwanted(list[k], configs)
      THEN CHOOSE k \in from..Len(list) :
             /\ unwanted(list[k], configs)
             /\ \A m \in from..Len(list) : unwanted(list[m], configs) => k <= m
      ELSE 0

\* ensureContainers' lookup of the desired name in its listing
alreadyExists(list, name) ==
    \E k \in DOMAIN list : list[k].Names[1] = EngineName(name)

\* ensureContainerConfig's comparison; the environment is not compared
needsUpdate(inspect, config) ==
    \/ ~ DeepEqual(inspect.Config.ExposedPorts, config.ExposedPorts)
    \/ ~ DeepEqual(inspect.HostConfig.PortBindings, config.PortBindings)
    \/ inspect.Config.Image # config.Image
    \/ (~ config.Cmd.isnil /\ ~ DeepEqual(inspect.Config.Cmd, config.Cmd))

(***************************************************************************)
(* /update: reconcileContainers.                                           *)
(***************************************************************************)
\* the trigger arrives and the configuration is converted
Update(p) ==
    /\ alive /\ h[p].pc = "idle" /\ passes < MaxPasses
    /\ passes' = passes + 1
    /\ containers' = ConfigToDockerConfig(containers, cfg)
    /\ Goto(p, [Idle EXCEPT !.pc = "readRemove", !.desired = containers',
                            !.start = engine, !.cfg0 = cfg,
                            !.prev = IF passes = 0 THEN NoPass ELSE
                               [declared |-> { h[p].cfg0.Containers[k].Name : k \in DOMAIN h[p].cfg0.Containers },
                                created |-> { h[p].log[x].name : x \in { x \in DOMAIN h[p].log : h[p].log[x].op = "create" } },
                                same |-> cfg = h[p].cfg0,
                                untouched |-> engine = h[p].end]])
    /\ UNCHANGED <<cfg, engine, images, nextId, alive, reloads, externals>>
    /\ UNCHANGED <<rl, metricsVars>>

\* if cfg.AppConfig.RemoveUnwantedContainers
ReadRemove(p) ==
    /\ alive /\ h[p].pc = "readRemove"
    /\ Goto(p, [h[p] EXCEPT !.pc = IF cfg.AppConfig.RemoveUnwantedContainers
                                     THEN "pruneList" ELSE "readUpdate",
                            !.removeUnwanted = cfg.AppConfig.RemoveUnwantedContainers])
    /\ UNCHANGED <<cfg, containers, engine, images, nextId, alive, passes, reloads, externals>>
    /\ UNCHANGED <<rl, metricsVars>>

\* removeUnwantedContainers: the listing, and the scan to the first unwanted container
AfterPruned(r, from) ==
    LET k == NextUnwanted(r.snapshot, from, r.desired)
    IN  IF k = 0
          THEN [r EXCEPT !.pc = "readUpdate", !.j = 0, !.snapshot = <<>>, !.site = "", !.delId = 0]
          ELSE [r EXCEPT !.pc = "dcStop", !.j = k, !.site = "prune", !.delId = r.snapshot[k].ID]

PruneList(p) ==
    /\ alive /\ h[p].pc = "pruneList"
    /\ Goto(p, AfterPruned([h[p] EXCEPT !.snapshot = engine], 1))
    /\ UNCHANGED <<cfg, containers, engine, images, nextId, alive, passes, reloads, externals>>
    /\ UNCHANGED <<rl, metricsVars>>

(***************************************************************************)
(* docker.DeleteContainer: stop, then remove.                              *)
(***************************************************************************)
\* (a variant that goes on to the remove without having stopped the container)
DcStopSkipped(p) ==
    /\ alive /\ h[p].pc = "dcStop"
    /\ Goto(p, [h[p] EXCEPT !.pc = "dcRemove"])
    /\ UNCHANGED <<cfg, containers, engine, images, nextId, alive, passes, reloads, externals>>
    /\ UNCHANGED <<rl, metricsVars>>

DcStop(p) ==
    /\ alive /\ h[p].pc = "dcStop"
    /\ IF IndexOfId(engine, h[p].delId) = 0
         THEN /\ Fatalf(p, "No such container")
              /\ UNCHANGED engine
         ELSE /\ engine' = SetRunning(engine, h[p].delId, FALSE)
              /\ Goto(p, [h[p] EXCEPT !.pc = "dcRemove",
                                      !.log = Logged(h[p], "stop", h[p].delId,
                                                     NameOfId(engine, h[p].delId))])
              /\ UNCHANGED alive
    /\ UNCHANGED <<cfg, containers, images, nextId, passes, reloads, externals>>
    /\ UNCHANGED <<rl, metricsVars>>

AfterDeleted(r) ==
    IF r.site = "prune"
      THEN AfterPruned(r, r.j + 1)
      ELSE [r EXCEPT !.pc = "ccList", !.delId = 0]

DcRemove(p) ==
    /\ alive /\ h[p].pc = "dcRemove"
    /\ LET k == IndexOfId(engine, h[p].delId)
       IN  IF k = 0 \/ (k # 0 /\ engine[k].Running)
             THEN /\ Fatalf(p, "cannot remove container")
                  /\ UNCHANGED engine
             ELSE /\ engine' = Without(engine, h[p].delId)
                  /\ Goto(p, AfterDeleted([h[p] EXCEPT !.log = Logged(h[p], "remove", h[p].delId,
                                                                     NameOfId(engine, h[p].delId))]))
                  /\ UNCHANGED alive
    /\ UNCHANGED <<cfg, containers, images, nextId, passes, reloads, externals>>
    /\ UNCHANGED <<rl, metricsVars>>

(***************************************************************************)
(* ensureContainers.                                                       *)
(***************************************************************************)
\* ensureContainers(cli, containers, cfg.AppConfig.UpdateCheck): the flag is read
ReadUpdate(p) ==
    /\ alive /\ h[p].pc = "readUpdate"
    /\ Goto(p, [h[p] EXCEPT !.pc = "ensList", !.updateCheck = cfg.AppConfig.UpdateCheck])
    /\ UNCHANGED <<cfg, containers, engine, images, nextId, alive, passes, reloads, externals>>
    /\ UNCHANGED <<rl, metricsVars>>

\* (a variant that leaves the loop one specification early)
AtSpecOffByOne(r, i) ==
    IF i >= Len(r.desired)
      THEN [r EXCEPT !.pc = "respond", !.i = 0, !.snapshot = <<>>, !.site = "",
                     !.created = FALSE, !.ctid = 0, !.runningImageID = <<>>]
      ELSE IF alreadyExists(r.snapshot, r.desired[i].Name)
             THEN [r EXCEPT !.pc = "eccList", !.i = i, !.site = "ecc",
                            !.created = FALSE, !.ctid = 0, !.runningImageID = <<>>]
             ELSE [r EXCEPT !.pc = "ccList", !.i = i, !.site = "ensure",
                            !.created = FALSE, !.ctid = 0, !.runningImageID = <<>>]

\* the head of the loop over the desired specifications
AtSpec(r, i) ==
    IF i > Len(r.desired)
      THEN [r EXCEPT !.pc = "respond", !.i = 0, !.snapshot = <<>>, !.site = "",
                     !.created = FALSE, !.ctid = 0, !.runningImageID = <<>>]
      ELSE IF alreadyExists(r.snapshot, r.desired[i].Name)
             THEN [r EXCEPT !.pc = "eccList", !.i = i, !.site = "ecc",
                            !.created = FALSE, !.ctid = 0, !.runningImageID = <<>>]
             ELSE [r EXCEPT !.pc = "ccList", !.i = i, !.site = "ensure",
                            !.created = FALSE, !.ctid = 0, !.runningImageID = <<>>]

\* runningContainers, err := docker.ListAllContariners(cli)
EnsList(p) ==
    /\ alive /\ h[p].pc = "ensList"
    /\ Goto(p, AtSpec([h[p] EXCEPT !.snapshot = engine], 1))
    /\ UNCHANGED <<cfg, containers, engine, images, nextId, alive, passes, reloads, externals>>
    /\ UNCHANGED <<rl, metricsVars>>

(***************************************************************************)
(* docker.CreateContainer: list, return (nil, false) when the name is      *)
(* taken, create otherwise.                                                *)
(***************************************************************************)
\* where the caller goes on when CreateContainer returned (nil, created)
AfterCreate(r, created) ==
    IF r.site = "ensure"
      THEN [r EXCEPT !.created = created, !.pc = IF created THEN "getId" ELSE "eccList",
                     !.site = IF created THEN "ensure" ELSE "ecc"]
      ELSE IF r.site = "fresh"
             THEN [r EXCEPT !.pc = "getId2"]
             ELSE [r EXCEPT !.pc = "getId"]

CcList(p) ==
    /\ alive /\ h[p].pc = "ccList"
    /\ Goto(p, IF alreadyExists(engine, h[p].desired[h[p].i].Name)
                 THEN AfterCreate(h[p], FALSE)
                 ELSE [h[p] EXCEPT !.pc = "ccCreate"])
    /\ UNCHANGED <<cfg, containers, engine, images, nextId, alive, passes, reloads, externals>>
    /\ UNCHANGED <<rl, metricsVars>>

\* cli.ContainerCreate, in CreateContainer and at the end of ensureContainerConfig
ContainerCreate(p) ==
    /\ alive /\ h[p].pc \in {"ccCreate", "eccCreate"}
    /\ LET config == h[p].desired[h[p].i]
       IN  IF alreadyExists(engine, config.Name) \/ images[RepoTag(config.Image)] = 0
             THEN /\ Fatalf(p, "Conflict or no such image")
                  /\ UNCHANGED <<engine, nextId>>
             ELSE /\ engine' = <<NewContainer(nextId, config,
                                              ImageId(RepoTag(config.Image),
                                                      images[RepoTag(config.Image)]))>> \o engine
                  /\ nextId' = nextId + 1
                  /\ Goto(p, AfterCreate([h[p] EXCEPT !.log = Logged(h[p], "create", nextId, config.Name)],
                                         TRUE))
                  /\ UNCHANGED alive
    /\ UNCHANGED <<cfg, containers, images, passes, reloads, externals>>
    /\ UNCHANGED <<rl, metricsVars>>

(***************************************************************************)
(* ensureContainerConfig.                                                  *)
(***************************************************************************)
EccList(p) ==
    /\ alive /\ h[p].pc = "eccList"
    /\ LET k == IndexOfName(engine, h[p].desired[h[p].i].Name)
       IN  Goto(p, IF k = 0
                     THEN [h[p] EXCEPT !.pc = "eccCreate", !.site = "eccAbsent"]
                     ELSE [h[p] EXCEPT !.pc = "eccInspect", !.delId = engine[k].ID])
    /\ UNCHANGED <<cfg, containers, engine, images, nextId, alive, passes, reloads, externals>>
    /\ UNCHANGED <<rl, metricsVars>>

EccInspect(p) ==
    /\ alive /\ h[p].pc = "eccInspect"
    /\ LET k == IndexOfId(engine, h[p].delId)
       IN  IF k = 0
             THEN Fatalf(p, "No such container")
             ELSE /\ Goto(p, IF needsUpdate(ContainerInspect(engine[k]), h[p].desired[h[p].i])
                               THEN [h[p] EXCEPT !.pc = "dcStop"]
                               ELSE [h[p] EXCEPT !.pc = "getId", !.delId = 0])
                  /\ UNCHANGED alive
    /\ UNCHANGED <<cfg, containers, engine, images, nextId, passes, reloads, externals>>
    /\ UNCHANGED <<rl, metricsVars>>

(***************************************************************************)
(* Back in ensureContainers: the id, the freshness check, the start.       *)
(***************************************************************************)
\* docker.GetContainerIDByName, before the check ("getId") and after a recreate ("getId2")
GetContainerIDByName(p) ==
    /\ alive /\ h[p].pc \in {"getId", "getId2"}
    /\ LET k == IndexOfName(engine, h[p].desired[h[p].i].Name)
       IN  IF k = 0
             THEN Fatalf(p, "container not found")
             ELSE /\ Goto(p, [h[p] EXCEPT !.ctid = engine[k].ID,
                                          !.pc = IF h[p].pc = "getId" /\ h[p].updateCheck /\ ~ h[p].created
                                                   THEN "fInspect" ELSE "start"])
                  /\ UNCHANGED alive
    /\ UNCHANGED <<cfg, containers, engine, images, nextId, passes, reloads, externals>>
    /\ UNCHANGED <<rl, metricsVars>>

\* isContainerUpToDate: the running container's image id
FInspect(p) ==
    /\ alive /\ h[p].pc = "fInspect"
    /\ LET k == IndexOfId(engine, h[p].ctid)
       IN  IF k = 0
             THEN Fatalf(p, "No such container")
             ELSE /\ Goto(p, [h[p] EXCEPT !.pc = "fPull", !.site = "fresh",
                                          !.runningImageID = ContainerInspect(engine[k]).Image,
                                          !.log = Logged([h[p] EXCEPT !.site = "fresh"], "check",
                                                         h[p].ctid, engine[k].Name)])
                  /\ UNCHANGED alive
    /\ UNCHANGED <<cfg, containers, engine, images, nextId, passes, reloads, externals>>
    /\ UNCHANGED <<rl, metricsVars>>

\* cli.ImagePull: the tag now names the registry's version, which may be newer
FPull(p) ==
    /\ alive /\ h[p].pc = "fPull"
    /\ \E v \in 1..MaxVersion :
          /\ v >= images[RepoTag(h[p].desired[h[p].i].Image)]
          /\ images' = [images EXCEPT ![RepoTag(h[p].desired[h[p].i].Image)] = v]
    /\ Goto(p, [h[p] EXCEPT !.pc = "fList"])
    /\ UNCHANGED <<cfg, containers, engine, nextId, alive, passes, reloads, externals>>
    /\ UNCHANGED <<rl, metricsVars>>

\* the loop over the listed images' RepoTags: the id of the image of which a
\* tag equals the reference as written, <<>> (the empty string) when none does
latestImageID(list, ref) ==
    IF ref \in DOMAIN list /\ list[ref] # 0 THEN ImageId(ref, list[ref]) ELSE <<>>

\* (a variant that goes on to the comparison when no tag equals the reference)
FListNoLookupError(p) ==
    /\ alive /\ h[p].pc = "fList"
    /\ LET config == h[p].desired[h[p].i]
       IN  Goto(p, IF h[p].runningImageID = latestImageID(images, config.Image)
                     THEN [h[p] EXCEPT !.pc = "start", !.runningImageID = <<>>]
                     ELSE [h[p] EXCEPT !.pc = "dcStop", !.delId = h[p].ctid,
                                       !.runningImageID = <<>>])
    /\ UNCHANGED <<cfg, containers, engine, images, nextId, alive, passes, reloads, externals>>
    /\ UNCHANGED <<rl, metricsVars>>

\* cli.ImageList and the comparison of the two image ids
FList(p) ==
    /\ alive /\ h[p].pc = "fList"
    /\ LET config == h[p].desired[h[p].i]
       IN  IF latestImageID(images, config.Image) = <<>>
             THEN Fatalf(p, "could not find the latest image")
             ELSE /\ Goto(p, IF h[p].runningImageID = latestImageID(images, config.Image)
                               THEN [h[p] EXCEPT !.pc = "start", !.runningImageID = <<>>]
                               ELSE [h[p] EXCEPT !.pc = "dcStop", !.delId = h[p].ctid,
                                                 !.runningImageID = <<>>])
                  /\ UNCHANGED alive
    /\ UNCHANGED <<cfg, containers, engine, images, nextId, passes, reloads, externals>>
    /\ UNCHANGED <<rl, metricsVars>>

\* docker.EnsureRunningContainers, and on to the next specification
Start(p) ==
    /\ alive /\ h[p].pc = "start"
    /\ IF IndexOfId(engine, h[p].ctid) = 0
         THEN /\ Fatalf(p, "No such container")
              /\ UNCHANGED engine
         ELSE /\ engine' = SetRunning(engine, h[p].ctid, TRUE)
              /\ Goto(p, AtSpec([h[p] EXCEPT !.log = Logged([h[p] EXCEPT !.site = "start"], "start",
                                                            h[p].ctid, NameOfId(engine, h[p].ctid))],
                                h[p].i + 1))
              /\ UNCHANGED alive
    /\ UNCHANGED <<cfg, containers, images, nextId, passes, reloads, externals>>
    /\ UNCHANGED <<rl, metricsVars>>

\* fmt.Fprint(w, "Containers reconciled\n")
Respond(p) ==
    /\ alive /\ h[p].pc = "respond"
    /\ Goto(p, [h[p] EXCEPT !.pc = "idle", !.response = "Containers reconciled",
                            !.status = 200, !.end = engine])
    /\ UNCHANGED <<cfg, containers, engine, images, nextId, alive, passes, reloads, externals>>
    /\ UNCHANGED <<rl, metricsVars>>

\* an engine call fails (the engine is unreachable): every caller ends in log.Fatalf
EngineCalls ==
    {"pruneList", "dcStop", "dcRemove", "ensList", "ccList", "ccCreate", "eccCreate", "eccList",
     "eccInspect", "getId", "getId2", "fInspect", "fPull", "fList", "start"}

\* (a variant in which DeleteContainer goes on to the remove when the stop failed)
EngineFaultStopIgnored(p) ==
    /\ alive /\ h[p].pc \in EngineCalls
    /\ IF h[p].pc = "dcStop"
         THEN /\ Goto(p, [h[p] EXCEPT !.pc = "dcRemove"])
              /\ UNCHANGED alive
         ELSE Fatalf(p, "engine unreachable")
    /\ UNCHANGED <<cfg, containers, engine, images, nextId, passes, reloads, externals>>
    /\ UNCHANGED <<rl, metricsVars>>

EngineFault(p) ==
    /\ alive /\ h[p].pc \in EngineCalls
    /\ Fatalf(p, "engine unreachable")
    /\ UNCHANGED <<cfg, containers, engine, images, nextId, passes, reloads, externals>>
    /\ UNCHANGED <<rl, metricsVars>>

(***************************************************************************)
(* /reload: updateConfig reads the file and replaces cfg under the lock;   *)
(* a file that is missing or does not parse ends the process.              *)
(***************************************************************************)
Reload ==
    /\ alive /\ reloads < MaxReloads
    /\ reloads' = reloads + 1
    /\ \/ /\ cfg' \in Configs
          /\ rl' = [err |-> "", status |-> 200, body |-> "Config reloaded"]
          /\ UNCHANGED alive
       \/ /\ alive' = FALSE
          /\ rl' = [err |-> "error reading config", status |-> 0, body |-> ""]
          /\ UNCHANGED cfg
    /\ UNCHANGED <<containers, engine, images, nextId, h, passes, externals>>
    /\ UNCHANGED metricsVars

(***************************************************************************)
(* Somebody else stops or removes a container.                             *)
(***************************************************************************)
External ==
    /\ externals < MaxExternal
    /\ externals' = externals + 1
    /\ \E k \in DOMAIN engine :
          \/ engine' = SetRunning(engine, engine[k].ID, FALSE)
          \/ engine' = Without(engine, engine[k].ID)
    /\ UNCHANGED <<cfg, containers, images, nextId, alive, h, passes, reloads>>
    /\ UNCHANGED <<rl, metricsVars>>

Quiet == \A p \in Handlers : h[p].pc = "idle"

Pass(p) ==
    \/ Update(p) \/ ReadRemove(p) \/ PruneList(p) \/ DcStop(p) \/ DcRemove(p)
    \/ ReadUpdate(p) \/ EnsList(p) \/ CcList(p) \/ ContainerCreate(p)
    \/ EccList(p) \/ EccInspect(p) \/ GetContainerIDByName(p)
    \/ FInspect(p) \/ FPull(p) \/ FList(p) \/ Start(p) \/ Respond(p)
    \/ EngineFault(p)

\* triggers are served one after the other; the engine changes under nobody's pass
Next ==
    \/ \E p \in Handlers : Pass(p)
    \/ (Quiet /\ Reload)
    \/ (Quiet /\ passes > 0 /\ External)

Spec == Init /\ [][Next]_vars

(***************************************************************************)
(* The same handlers with /reload served while a pass is under way: the    *)
(* HTTP server runs every request in a goroutine of its own.               *)
(***************************************************************************)
NextRace ==
    \/ \E p \in Handlers : Pass(p)
    \/ Reload

SpecRace == Init /\ [][NextRace]_vars

(***************************************************************************)
(* Two /update triggers served at once: net/http runs each request in a    *)
(* goroutine of its own and reconcileContainers takes no lock.  The        *)
(* conversion is taken one append at a time: containers = append(...)      *)
(* reads the package-level slice and then writes it, and nothing orders    *)
(* the reads and writes of two goroutines, so an append of one pass can be *)
(* lost under, or land between, the appends of the other.                  *)
(***************************************************************************)
BothHandlers == {1, 2}

PairConfigs ==
    { c \in Configs : /\ c.AppConfig.RemoveUnwantedContainers
                      /\ \/ c.Containers = <<WebBase>>
                         \/ c.Containers = <<WebBase, Db>> /\ ~ c.AppConfig.UpdateCheck }

InitPair ==
    /\ NoScrape
    /\ cfg \in PairConfigs
    /\ containers = <<>>
    /\ engine \in InitialEngines
    /\ images = [r \in ImageRefs |-> 1]
    /\ nextId = 4
    /\ alive = TRUE
    /\ h = [p \in BothHandlers |-> Idle]
    /\ passes = 0
    /\ reloads = 0
    /\ externals = 0
    /\ rl = [err |-> "", status |-> 0, body |-> ""]

\* the trigger arrives: ConfigToDockerConfig(*cfg) is entered with a copy of *cfg
Trigger(p) ==
    /\ alive /\ h[p].pc = "idle" /\ passes < MaxPasses
    /\ passes' = passes + 1
    /\ Goto(p, [Idle EXCEPT !.pc = IF Len(cfg.Containers) = 0 THEN "converted" ELSE "appendRead",
                            !.k = 1, !.start = engine, !.cfg0 = cfg])
    /\ UNCHANGED <<cfg, containers, engine, images, nextId, alive, reloads, externals>>
    /\ UNCHANGED <<rl, metricsVars>>

\* append(containers, localContainer): the operand is read
AppendRead(p) ==
    /\ alive /\ h[p].pc = "appendRead"
    /\ Goto(p, [h[p] EXCEPT !.pc = "appendWrite", !.acc = containers])
    /\ UNCHANGED <<cfg, containers, engine, images, nextId, alive, passes, reloads, externals>>
    /\ UNCHANGED <<rl, metricsVars>>

\* containers = ...: the result is stored, and the loop goes on
AppendWrite(p) ==
    /\ alive /\ h[p].pc = "appendWrite"
    /\ containers' = Append(h[p].acc, localContainer(h[p].cfg0.Containers[h[p].k]))
    /\ Goto(p, [h[p] EXCEPT !.pc = IF h[p].k = Len(h[p].cfg0.Containers)
                                     THEN "converted" ELSE "appendRead",
                            !.k = h[p].k + 1, !.acc = <<>>])
    /\ UNCHANGED <<cfg, engine, images, nextId, alive, passes, reloads, externals>>
    /\ UNCHANGED <<rl, metricsVars>>

\* return containers, nil
Converted(p) ==
    /\ alive /\ h[p].pc = "converted"
    /\ Goto(p, [h[p] EXCEPT !.pc = "readRemove", !.desired = containers, !.k = 0])
    /\ UNCHANGED <<cfg, containers, engine, images, nextId, alive, passes, reloads, externals>>
    /\ UNCHANGED <<rl, metricsVars>>

PassPair(p) ==
    \/ Trigger(p) \/ AppendRead(p) \/ AppendWrite(p) \/ Converted(p)
    \/ ReadRemove(p) \/ PruneList(p) \/ DcStop(p) \/ DcRemove(p)
    \/ ReadUpdate(p) \/ EnsList(p) \/ CcList(p) \/ ContainerCreate(p)
    \/ EccList(p) \/ EccInspect(p) \/ GetContainerIDByName(p)
    \/ FInspect(p) \/ FPull(p) \/ FList(p) \/ Start(p) \/ Respond(p)
    \/ EngineFault(p)

\* nobody but the two passes changes the engine, and the configuration stays
NextPair == \E p \in BothHandlers : PassPair(p)

SpecPair == InitPair /\ [][NextPair]_vars

(***************************************************************************)
(* pkg/metrics: UpdateMetrics.  A float64 is its class and, when finite,   *)
(* the integer part of its value.  x / 0 is NaN for x = 0 and +Inf for     *)
(* x > 0 and does not fault; +Inf times 0 is NaN.                          *)
(***************************************************************************)
Finite(v) == [class |-> "finite", value |-> v]

NaN == [class |-> "NaN", value |-> 0]

PosInf == [class |-> "+Inf", value |-> 0]

cpuPercent(stats) ==
    LET cpuDelta == stats.CPUStats.TotalUsage - stats.PreCPUStats.TotalUsage
        systemDelta == stats.CPUStats.SystemUsage - stats.PreCPUStats.SystemUsage
        n == stats.CPUStats.PercpuUsage
    IN  IF systemDelta = 0
          THEN IF cpuDelta = 0 \/ n = 0 THEN NaN ELSE PosInf
          ELSE Finite((cpuDelta * n * 100) \div systemDelta)

\* dm.CPUUsageTotal.WithLabelValues(containerID, containerName).Set(cpuPercent)
UpdateMetrics(sink, stats) ==
    [l \in DOMAIN sink \cup {<<stats.ID, stats.Name>>} |->
        IF l = <<stats.ID, stats.Name>> THEN cpuPercent(stats) ELSE sink[l]]

(***************************************************************************)
(* /metrics: GenerateMetrics.  One step of the handler, of a task or of    *)
(* the closing goroutine is one engine call or one channel operation; a    *)
(* send on a full channel and a receive on an empty open one are not       *)
(* enabled.                                                                *)
(***************************************************************************)
\* the counters the engine reports: usage and system usage, now and before,
\* and the number of CPUs (len(PercpuUsage))
CpuReadings ==
    { [now |-> [TotalUsage |-> 3, SystemUsage |-> 10, PercpuUsage |-> 2],
       pre |-> [TotalUsage |-> 1, SystemUsage |-> 6, PercpuUsage |-> 2]],
      [now |-> [TotalUsage |-> 3, SystemUsage |-> 6, PercpuUsage |-> 2],
       pre |-> [TotalUsage |-> 1, SystemUsage |-> 6, PercpuUsage |-> 2]],
      [now |-> [TotalUsage |-> 1, SystemUsage |-> 6, PercpuUsage |-> 2],
       pre |-> [TotalUsage |-> 1, SystemUsage |-> 6, PercpuUsage |-> 2]] }

\* the samples the engine may answer for a container
StatsOf(c) ==
    { [ID |-> c.ID, Name |-> c.Names[1], CPUStats |-> r.now, PreCPUStats |-> r.pre] :
        r \in CpuReadings }

\* var statsJSON types.StatsJSON: the zero value (the id 0 is the empty string)
ZeroStats ==
    [ID |-> 0, Name |-> "",
     CPUStats |-> [TotalUsage |-> 0, SystemUsage |-> 0, PercpuUsage |-> 0],
     PreCPUStats |-> [TotalUsage |-> 0, SystemUsage |-> 0, PercpuUsage |-> 0]]

\* the bytes of a response body: the sample they encode, whether they are
\* valid JSON, and whether they are all of them
Bytes(st, valid, whole) == [stats |-> st, valid |-> valid, whole |-> whole]

\* a goroutine of the fan-out; errs counts the errors it has sent, for the properties
NewTask(id) ==
    [pc |-> "fetch", containerID |-> id, body |-> Bytes(ZeroStats, FALSE, FALSE),
     data |-> Bytes(ZeroStats, FALSE, FALSE), statsJSON |-> ZeroStats, errs |-> 0, failed |-> ""]

Send(ch, v) == [ch EXCEPT !.buf = Append(ch.buf, v), !.sent = ch.sent + 1]

CanSend(ch) == ~ ch.closed /\ Len(ch.buf) < ch.cap

\* containers, err := docker.ListAllContariners(cli), and the two channels
MetricsList ==
    /\ mh.pc = "idle"
    /\ \/ /\ mh' = [mh EXCEPT !.pc = "done", !.status = 500, !.body = "Could not list containers"]
          /\ UNCHANGED <<statsChan, errChan>>
       \/ /\ mh' = [mh EXCEPT !.pc = "spawn", !.k = 1,
                              !.containers = [k \in DOMAIN engine |-> engine[k].ID]]
          /\ statsChan' = MakeChan(Len(engine))
          /\ errChan' = MakeChan(Len(engine))
    /\ UNCHANGED <<tasks, wg, closer, dm>>
    /\ UNCHANGED reconcileVars

\* wg.Add(1); go func(containerID string) {...}(container.ID)
GoTask ==
    /\ mh.pc = "spawn" /\ mh.k <= Len(mh.containers)
    /\ wg' = wg + 1
    /\ tasks' = Append(tasks, NewTask(mh.containers[mh.k]))
    /\ mh' = [mh EXCEPT !.k = mh.k + 1]
    /\ UNCHANGED <<statsChan, errChan, closer, dm>>
    /\ UNCHANGED reconcileVars

\* go func() { wg.Wait(); close(statsChan); close(errChan) }()
GoCloser ==
    /\ mh.pc = "spawn" /\ mh.k > Len(mh.containers)
    /\ closer' = "wait"
    /\ mh' = [mh EXCEPT !.pc = "rangeStats", !.k = 0]
    /\ UNCHANGED <<tasks, statsChan, errChan, wg, dm>>
    /\ UNCHANGED reconcileVars

\* stats, err := cli.ContainerStats(ctx, containerID, false)
ContainerStats(t) ==
    /\ t \in DOMAIN tasks /\ tasks[t].pc = "fetch"
    /\ \/ tasks' = [tasks EXCEPT ![t].pc = "sendErr", ![t].failed = "fetch"]
       \/ \E k \in DOMAIN engine, valid \in BOOLEAN :
             /\ engine[k].ID = tasks[t].containerID
             /\ \E st \in StatsOf(engine[k]) :
                   tasks' = [tasks EXCEPT ![t].pc = "read", ![t].body = Bytes(st, valid, TRUE)]
    /\ UNCHANGED <<mh, statsChan, errChan, wg, closer, dm>>
    /\ UNCHANGED reconcileVars

\* data, err := io.ReadAll(stats.Body): on an error data is what was read so
\* far, the whole body at most
ReadAll(t) ==
    /\ t \in DOMAIN tasks /\ tasks[t].pc = "read"
    /\ \/ tasks' = [tasks EXCEPT ![t].pc = "unmarshal", ![t].data = tasks[t].body]
       \/ \E whole \in BOOLEAN :
             tasks' = [tasks EXCEPT ![t].pc = "sendErr", ![t].failed = "read",
                                    ![t].data = [tasks[t].body EXCEPT !.whole = whole]]
    /\ UNCHANGED <<mh, statsChan, errChan, wg, closer, dm>>
    /\ UNCHANGED reconcileVars

\* err = json.Unmarshal(data, &statsJSON): invalid input leaves the zero value
Unmarshal(t) ==
    /\ t \in DOMAIN tasks /\ tasks[t].pc = "unmarshal"
    /\ tasks' = IF tasks[t].data.valid /\ tasks[t].data.whole
                  THEN [tasks EXCEPT ![t].pc = "sendStats", ![t].statsJSON = tasks[t].data.stats]
                  ELSE [tasks EXCEPT ![t].pc = "sendErr", ![t].failed = "unmarshal"]
    /\ UNCHANGED <<mh, statsChan, errChan, wg, closer, dm>>
    /\ UNCHANGED reconcileVars

\* (a variant in which every error returns)
AfterSendErrReturns(r) == [r EXCEPT !.pc = "done", !.errs = r.errs + 1]

\* where a task goes on after errChan <- fmt.Errorf(...): only the failed
\* fetch returns (and runs the deferred wg.Done)
AfterSendErr(r) ==
    IF r.failed = "fetch" THEN [r EXCEPT !.pc = "done", !.errs = r.errs + 1]
    ELSE IF r.failed = "read" THEN [r EXCEPT !.pc = "unmarshal", !.errs = r.errs + 1]
    ELSE [r EXCEPT !.pc = "sendStats", !.errs = r.errs + 1]

\* errChan <- fmt.Errorf("could not ... stats for container %s: %v", containerID, err)
SendErr(t) ==
    /\ t \in DOMAIN tasks /\ tasks[t].pc = "sendErr"
    /\ CanSend(errChan)
    /\ errChan' = Send(errChan, [containerID |-> tasks[t].containerID,
                                 cause |-> tasks[t].failed, task |-> t])
    /\ tasks' = [tasks EXCEPT ![t] = AfterSendErr(tasks[t])]
    /\ wg' = IF tasks'[t].pc = "done" THEN wg - 1 ELSE wg
    /\ UNCHANGED <<mh, statsChan, closer, dm>>
    /\ UNCHANGED reconcileVars

\* statsChan <- statsJSON, and the deferred wg.Done
SendStats(t) ==
    /\ t \in DOMAIN tasks /\ tasks[t].pc = "sendStats"
    /\ CanSend(statsChan)
    /\ statsChan' = Send(statsChan, [stats |-> tasks[t].statsJSON, task |-> t])
    /\ tasks' = [tasks EXCEPT ![t].pc = "done"]
    /\ wg' = wg - 1
    /\ UNCHANGED <<mh, errChan, closer, dm>>
    /\ UNCHANGED reconcileVars

\* (a variant that does not wait for the counter to reach zero)
WgWaitNoWait ==
    /\ closer = "wait"
    /\ closer' = "closeStats"
    /\ UNCHANGED <<mh, tasks, statsChan, errChan, wg, dm>>
    /\ UNCHANGED reconcileVars

\* wg.Wait()
WgWait ==
    /\ closer = "wait" /\ wg = 0
    /\ closer' = "closeStats"
    /\ UNCHANGED <<mh, tasks, statsChan, errChan, wg, dm>>
    /\ UNCHANGED reconcileVars

\* close(statsChan)
CloseStatsChan ==
    /\ closer = "closeStats"
    /\ statsChan' = [statsChan EXCEPT !.closed = TRUE]
    /\ closer' = "closeErr"
    /\ UNCHANGED <<mh, tasks, errChan, wg, dm>>
    /\ UNCHANGED reconcileVars

\* close(errChan)
CloseErrChan ==
    /\ closer = "closeErr"
    /\ errChan' = [errChan EXCEPT !.closed = TRUE]
    /\ closer' = "done"
    /\ UNCHANGED <<mh, tasks, statsChan, wg, dm>>
    /\ UNCHANGED reconcileVars

\* for statsJSON := range statsChan { dm.UpdateMetrics(statsJSON) }
RangeStatsChan ==
    /\ mh.pc = "rangeStats"
    /\ \/ /\ statsChan.buf # <<>>
          /\ dm' = UpdateMetrics(dm, Head(statsChan.buf).stats)
          /\ statsChan' = [statsChan EXCEPT !.buf = Tail(statsChan.buf)]
          /\ mh' = [mh EXCEPT !.recorded = Append(mh.recorded, Head(statsChan.buf))]
       \/ /\ statsChan.buf = <<>> /\ statsChan.closed
          /\ mh' = [mh EXCEPT !.pc = "lenErr"]
          /\ UNCHANGED <<statsChan, dm>>
    /\ UNCHANGED <<tasks, errChan, wg, closer>>
    /\ UNCHANGED reconcileVars

\* if len(errChan) > 0, and promhttp.Handler().ServeHTTP(w, r) otherwise
LenErrChan ==
    /\ mh.pc = "lenErr"
    /\ mh' = IF Len(errChan.buf) > 0
               THEN [mh EXCEPT !.pc = "rangeErr"]
               ELSE [mh EXCEPT !.pc = "done", !.status = 200, !.body = "metrics"]
    /\ UNCHANGED <<tasks, statsChan, errChan, wg, closer, dm>>
    /\ UNCHANGED reconcileVars

\* (a variant that answers with the first error it receives)
RangeErrChanFirstOnly ==
    /\ mh.pc = "rangeErr"
    /\ errChan.buf # <<>>
    /\ errChan' = [errChan EXCEPT !.buf = Tail(errChan.buf)]
    /\ mh' = [mh EXCEPT !.pc = "done", !.status = 500, !.body = "Errors occurred",
                        !.errorMsgs = <<Head(errChan.buf)>>]
    /\ UNCHANGED <<tasks, statsChan, wg, closer, dm>>
    /\ UNCHANGED reconcileVars

\* for err := range errChan { errorMsgs = append(errorMsgs, err.Error()) }, and
\* http.Error(w, fmt.Sprintf("Errors occurred: %v", errorMsgs), 500)
RangeErrChan ==
    /\ mh.pc = "rangeErr"
    /\ \/ /\ errChan.buf # <<>>
          /\ errChan' = [errChan EXCEPT !.buf = Tail(errChan.buf)]
          /\ mh' = [mh EXCEPT !.errorMsgs = Append(mh.errorMsgs, Head(errChan.buf))]
       \/ /\ errChan.buf = <<>> /\ errChan.closed
          /\ mh' = [mh EXCEPT !.pc = "done", !.status = 500, !.body = "Errors occurred"]
          /\ UNCHANGED errChan
    /\ UNCHANGED <<tasks, statsChan, wg, closer, dm>>
    /\ UNCHANGED reconcileVars

\* a scrape of an engine that nothing else changes meanwhile
InitMetrics ==
    /\ NoScrape
    /\ cfg = [AppConfig |-> [UpdateCheck |-> FALSE, RemoveUnwantedContainers |-> FALSE],
              Containers |-> <<WebBase, Db>>]
    /\ containers = <<>>
    /\ engine \in InitialEngines
    /\ images = [r \in ImageRefs |-> 1]
    /\ nextId = 4
    /\ alive = TRUE
    /\ h = [p \in Handlers |-> Idle]
    /\ passes = 0
    /\ reloads = 0
    /\ externals = 0
    /\ rl = [err |-> "", status |-> 0, body |-> ""]

\* a listing holds as many containers as the engine, a scrape as many tasks
TaskIds == 1..MaxInitial

\* the body of a task's goroutine
Task(t) ==
    \/ ContainerStats(t) \/ ReadAll(t) \/ Unmarshal(t) \/ SendErr(t) \/ SendStats(t)

NextMetrics ==
    \/ MetricsList \/ GoTask \/ GoCloser
    \/ \E t \in TaskIds : Task(t)
    \/ WgWait \/ CloseStatsChan \/ CloseErrChan
    \/ RangeStatsChan \/ LenErrChan \/ RangeErrChan

SpecMetrics == InitMetrics /\ [][NextMetrics]_vars

(***************************************************************************)
(* Properties.                                                             *)
(***************************************************************************)
NamesOf(list) == { list[k].Name : k \in DOMAIN list }

Bearing(list, name) == { k \in DOMAIN list : list[k].Names[1] = EngineName(name) }

\* the positions of the log where one of ops was issued for name
Issued(log, name, ops) == { x \in DOMAIN log : log[x].name = name /\ log[x].op \in ops }

\* C1: with pruning enabled, removeUnwantedContainers issues no stop and no
\* remove for an observed container whose name is the name of a desired
\* specification it was given, whatever the order of the two lists.
C1_PruneSparesDesired ==
    \A p \in Handlers : \A x \in DOMAIN h[p].log :
        h[p].log[x].site = "prune" =>
            /\ h[p].log[x].op \in {"stop", "remove"}
            /\ h[p].log[x].name \notin NamesOf(h[p].desired)

\* a pruning that removed a container and had two desired names to spare, one
\* of them observed and still there
C1_Witness ==
    \E p \in Handlers :
        /\ h[p].pc = "readUpdate"
        /\ Len(h[p].desired) >= 2
        /\ \E x \in DOMAIN h[p].log : h[p].log[x].site = "prune" /\ h[p].log[x].op = "remove"
        /\ \E k \in DOMAIN h[p].start :
              /\ h[p].start[k].Name \in NamesOf(h[p].desired)
              /\ IndexOfId(engine, h[p].start[k].ID) # 0

\* the desired specifications of the active configuration, as converted
Declared(c) == [k \in DOMAIN c.Containers |-> localContainer(c.Containers[k])]

\* a container of the listing bears the specification's name and the comparison accepts it
Matches(list, config) ==
    /\ Bearing(list, config.Name) # {}
    /\ \A k \in Bearing(list, config.Name) : ~ needsUpdate(ContainerInspect(list[k]), config)

\* the container's image is the one the tag names now
UpToDate(list, config) ==
    \A k \in Bearing(list, config.Name) :
        list[k].ImageID = ImageId(RepoTag(config.Image), images[RepoTag(config.Image)])

\* the specification is declared, its container was there and matching when the
\* pass began, and the freshness check, if any, found nothing newer
Settled(r, config) ==
    /\ Matches(r.start, config)
    /\ (~ r.cfg0.AppConfig.UpdateCheck \/ UpToDate(r.start, config))

\* C2: a container declared and converged by an earlier pass and dropped by a
\* reload that enables remove_unwanted_containers is stopped and removed by the
\* next pass, which issues no stop, remove or create for a container that is
\* still declared and already matches.
C2_DroppedIsPruned ==
    \A p \in Handlers : \A n \in h[p].prev.declared :
        ( /\ h[p].pc = "respond"
          /\ Bearing(h[p].start, n) # {}
          /\ n \notin NamesOf(Declared(h[p].cfg0))
          /\ h[p].cfg0.AppConfig.RemoveUnwantedContainers )
        => /\ Bearing(engine, n) = {}
           /\ Issued(h[p].log, n, {"stop"}) # {}
           /\ Issued(h[p].log, n, {"remove"}) # {}
           /\ \A k \in DOMAIN Declared(h[p].cfg0) :
                 Settled(h[p], Declared(h[p].cfg0)[k])
                    => Issued(h[p].log, Declared(h[p].cfg0)[k].Name, {"stop", "remove", "create"}) = {}

\* C3: at the end of a pass that completes without error, exactly one container
\* of the engine, and so at most one, bears each desired name.
C3_OnePerName ==
    \A p \in Handlers :
        h[p].pc = "respond" =>
            \A k \in DOMAIN h[p].desired :
                Cardinality(Bearing(engine, h[p].desired[k].Name)) = 1

\* a pass over two names or more that recreated a container completes
C3_Witness ==
    \E p \in Handlers :
        /\ h[p].pc = "respond"
        /\ Cardinality(NamesOf(h[p].desired)) >= 2
        /\ \E x \in DOMAIN h[p].log :
              h[p].log[x].op = "create" /\ h[p].log[x].site \in {"ecc", "fresh"}

\* the calls of the log are in the order stop, remove, create: a remove follows
\* the stop of the same id, and the create of a recreate follows the remove of
\* the old container of that name
LogInOrder(log) ==
    \A x \in DOMAIN log :
        /\ log[x].op = "remove" =>
              /\ x >= 2
              /\ log[x - 1].op = "stop"
              /\ log[x - 1].id = log[x].id
        /\ (log[x].op = "create" /\ log[x].site \in {"ecc", "fresh"}) =>
              /\ x >= 3
              /\ log[x - 1].op = "remove"
              /\ log[x - 1].name = log[x].name
              /\ log[x - 1].id # log[x].id
              /\ log[x - 2].op = "stop"

\* a container's image, ports, command and environment are those it was created with
NothingInPlace ==
    \A a \in DOMAIN engine : \A b \in DOMAIN engine' :
        engine[a].ID = engine'[b].ID =>
            engine'[b] = [engine[a] EXCEPT !.Running = engine'[b].Running]

\* C4: within a recreate the engine calls are stop(old id), remove(old id),
\* create(desired); a create is issued for a name only when no container bears
\* it, and no container's image, ports or command is changed in place.
C4_StopRemoveCreate ==
    /\ [](\A p \in Handlers :
            /\ LogInOrder(h[p].log)
            /\ h[p].pc \in {"ccCreate", "eccCreate"} =>
                  Bearing(engine, h[p].desired[h[p].i].Name) = {})
    /\ [][NothingInPlace]_vars

\* a recreate for a mismatch and a recreate for a stale image have both created
C4_Witness ==
    \E p \in Handlers :
        /\ \E x \in DOMAIN h[p].log : h[p].log[x].op = "create" /\ h[p].log[x].site = "ecc"
        /\ \E x \in DOMAIN h[p].log : h[p].log[x].op = "create" /\ h[p].log[x].site = "fresh"

\* C5: a declared specification whose container is there and matches (with
\* update checking off, or the image up to date) gets no create, stop or remove
\* in the pass and exactly one start.
C5_SettledOnlyStarted ==
    \A p \in Handlers :
        h[p].pc = "respond" =>
            \A k \in DOMAIN Declared(h[p].cfg0) :
                LET D == Declared(h[p].cfg0)[k]
                IN  Settled(h[p], D) =>
                        /\ Issued(h[p].log, D.Name, {"create", "stop", "remove"}) = {}
                        /\ Cardinality(Issued(h[p].log, D.Name, {"start"})) = 1

\* C6: a declared specification whose name no container bears gets exactly one
\* create followed by exactly one start of the created container, no stop and
\* no remove, and exactly one container bears the name when the pass ends.
C6_AbsentCreatedOnce ==
    \A p \in Handlers :
        h[p].pc = "respond" =>
            \A k \in DOMAIN Declared(h[p].cfg0) :
                LET n == Declared(h[p].cfg0)[k].Name
                    log == h[p].log
                IN  Bearing(h[p].start, n) = {} =>
                        /\ Cardinality(Issued(log, n, {"create"})) = 1
                        /\ Cardinality(Issued(log, n, {"start"})) = 1
                        /\ \A x \in Issued(log, n, {"create"}) : \A y \in Issued(log, n, {"start"}) :
                              x < y /\ log[x].id = log[y].id
                        /\ Issued(log, n, {"stop", "remove"}) = {}
                        /\ Cardinality(Bearing(engine, n)) = 1

\* C8: the pass that follows a pass that created a container, with the same
\* configuration, the engine untouched in between and no update check, issues
\* no stop, remove or create for that container's name.
C8_RoundTrip ==
    \A p \in Handlers :
        ( /\ h[p].pc = "respond"
          /\ h[p].prev.same
          /\ h[p].prev.untouched
          /\ ~ h[p].cfg0.AppConfig.UpdateCheck )
        => \A n \in h[p].prev.created :
              Issued(h[p].log, n, {"stop", "remove", "create"}) = {}

\* C9: the freshness check is not run for a container that the same pass
\* created because its name was absent.
C9_NoCheckOfCreated ==
    \A p \in Handlers : \A x, y \in DOMAIN h[p].log :
        ~ ( /\ h[p].log[x].op = "create"
            /\ h[p].log[x].site \in {"ensure", "eccAbsent"}
            /\ h[p].log[y].op = "check"
            /\ h[p].log[y].id = h[p].log[x].id )

\* C10: a container recreated for a mismatch is not freshness-checked in the
\* same pass, and a pass recreates a name at most once.
C10_OneRecreate ==
    \A p \in Handlers :
        /\ \A x, y \in DOMAIN h[p].log :
              ~ ( /\ h[p].log[x].op = "create"
                  /\ h[p].log[x].site = "ecc"
                  /\ h[p].log[y].op = "check"
                  /\ h[p].log[y].id = h[p].log[x].id )
        /\ \A x, y \in DOMAIN h[p].log :
              ( /\ h[p].log[x].op = "create" /\ h[p].log[x].site \in {"ecc", "fresh"}
                /\ h[p].log[y].op = "create" /\ h[p].log[y].site \in {"ecc", "fresh"}
                /\ h[p].log[x].name = h[p].log[y].name )
              => x = y

(***************************************************************************)
(* The comparison of ensureContainerConfig on its own: a handler stands    *)
(* before the inspection of the one container that bears the name of its   *)
(* one specification, for every pair of a desired and a created-from       *)
(* specification.                                                          *)
(***************************************************************************)
CompareSpecs ==
    { ContainerConfig("web", image, pbs, env, cmd) :
        image \in ImageRefs,
        pbs \in { <<>>, <<PortBinding("80", "8090")>>, <<PortBinding("80", "8091")>>,
                  <<PortBinding("443", "8090")>> },
        env \in {Env1, Env2},
        cmd \in { NoCmd, SliceOf("[]string", <<"nginx">>), SliceOf("[]string", <<"sh">>) } }

InitCompare ==
    \E D \in CompareSpecs, O \in CompareSpecs :
        /\ NoScrape
        /\ cfg = [AppConfig |-> [UpdateCheck |-> FALSE, RemoveUnwantedContainers |-> FALSE],
                  Containers |-> <<D>>]
        /\ containers = ConfigToDockerConfig(<<>>, cfg)
        /\ engine = <<[NewContainer(1, localContainer(O), ImageId(O.Image, 1)) EXCEPT !.Running = TRUE]>>
        /\ images = [r \in ImageRefs |-> 1]
        /\ nextId = 2
        /\ alive = TRUE
        /\ h = [p \in Handlers |->
                  [Idle EXCEPT !.pc = "eccInspect", !.desired = containers, !.snapshot = engine,
                               !.i = 1, !.site = "ecc", !.delId = 1, !.start = engine, !.cfg0 = cfg]]
        /\ passes = 1
        /\ reloads = 0
        /\ externals = 0
        /\ rl = [err |-> "", status |-> 0, body |-> ""]

NextCompare == \E p \in Handlers : EccInspect(p)

SpecCompare == InitCompare /\ [][NextCompare]_vars

\* the compared fields, as values: the exposed ports, the bindings, the image
\* and, when the specification declares one, the command
FieldsEqual(config, c) ==
    /\ c.ExposedPorts.elems = config.ExposedPorts.elems
    /\ c.PortBindings.elems = config.PortBindings.elems
    /\ c.Image = config.Image
    /\ (~ config.Cmd.isnil => c.Cmd.elems = config.Cmd.elems)

\* C7: ensureContainerConfig leaves the container alone if and only if exposed
\* ports, port bindings and image are equal and, when a command is declared,
\* the command is equal.
C7_NoOpIffEqual ==
    \A p \in Handlers :
        h[p].pc \in {"getId", "dcStop"} =>
            (h[p].pc = "getId" <=> FieldsEqual(h[p].desired[1], h[p].start[1]))

\* C11: when no local image carries the desired reference after the pull, the
\* check ends in an error and nothing is issued after it: the checked container
\* is still there; a recreate for freshness is under way only when the lookup
\* resolved an image id and the container's image id differs from it.
C11_LookupFailureIsNoStaleness ==
    \A p \in Handlers :
        /\ (h[p].pc = "fatal" /\ h[p].response = "could not find the latest image") =>
              /\ h[p].log # <<>>
              /\ h[p].log[Len(h[p].log)].op = "check"
              /\ h[p].log[Len(h[p].log)].id = h[p].ctid
              /\ IndexOfId(engine, h[p].ctid) # 0
        /\ (h[p].site = "fresh" /\ h[p].pc \in {"dcStop", "dcRemove", "ccList", "ccCreate"}) =>
              latestImageID(images, h[p].desired[h[p].i].Image) # <<>>
        /\ (h[p].site = "fresh" /\ h[p].pc = "dcStop") =>
              /\ IndexOfId(engine, h[p].delId) # 0
              /\ engine[IndexOfId(engine, h[p].delId)].ImageID
                    # latestImageID(images, h[p].desired[h[p].i].Image)

\* the lookup failed for a container that the pass had found in place
C11_Witness ==
    \E p \in Handlers :
        /\ h[p].pc = "fatal"
        /\ h[p].response = "could not find the latest image"
        /\ Bearing(h[p].start, h[p].desired[h[p].i].Name) # {}
        /\ Bearing(engine, h[p].desired[h[p].i].Name) # {}

\* the label set of a sample
LabelsOf(stats) == <<stats.ID, stats.Name>>

\* the samples and the errors that came from task t and that the handler took
RecordedOf(t) == { x \in DOMAIN mh.recorded : mh.recorded[x].task = t }

BatchedOf(t) == { x \in DOMAIN mh.errorMsgs : mh.errorMsgs[x].task = t }

\* C12: when the response of a scrape in which the stats call failed for some
\* containers is sent, it is one failure that carries every collected error,
\* the one of each failed call with its container id and its cause, and the
\* gauges of every container whose query succeeded have been updated; as long
\* as nothing but stats calls failed, no task waits on a channel.
C12_BatchedErrors ==
    /\ (\A t \in DOMAIN tasks : tasks[t].failed \in {"", "fetch"}) =>
          \A t \in DOMAIN tasks :
              /\ tasks[t].pc = "sendErr" => CanSend(errChan)
              /\ tasks[t].pc = "sendStats" => CanSend(statsChan)
    /\ (mh.pc = "done" /\ \E t \in DOMAIN tasks : tasks[t].failed = "fetch") =>
        /\ mh.status = 500
        /\ mh.body = "Errors occurred"
        /\ Len(mh.errorMsgs) = errChan.sent
        /\ \A t \in DOMAIN tasks :
              tasks[t].failed = "fetch" =>
                  \E x \in DOMAIN mh.errorMsgs :
                      mh.errorMsgs[x] = [containerID |-> tasks[t].containerID,
                                         cause |-> "fetch", task |-> t]
        /\ \A t \in DOMAIN tasks :
              tasks[t].errs = 0 =>
                  /\ tasks[t].statsJSON.ID = tasks[t].containerID
                  /\ LabelsOf(tasks[t].statsJSON) \in DOMAIN dm
                  /\ dm[LabelsOf(tasks[t].statsJSON)] = cpuPercent(tasks[t].statsJSON)

\* the response to a scrape over two containers, the call failed for one and
\* the gauge of the other is set
C12_Witness ==
    /\ mh.pc = "done"
    /\ Len(tasks) >= 2
    /\ \E t \in DOMAIN tasks : tasks[t].failed = "fetch"
    /\ \E t \in DOMAIN tasks : tasks[t].errs = 0 /\ LabelsOf(tasks[t].statsJSON) \in DOMAIN dm

\* C13: no more values are sent on either channel than it has room for, and no
\* task stands before a send that the channel cannot take.
C13_SendsWithinCapacity ==
    /\ statsChan.sent <= statsChan.cap
    /\ errChan.sent <= errChan.cap
    /\ \A t \in DOMAIN tasks :
          /\ tasks[t].pc = "sendErr" => CanSend(errChan)
          /\ tasks[t].pc = "sendStats" => CanSend(statsChan)

\* C14: the CPU gauge set from a sample whose system usage equals its previous
\* system usage is the number 0.
C14_ZeroSystemDeltaIsZero ==
    \A x \in DOMAIN mh.recorded :
        LET st == mh.recorded[x].stats
        IN  st.CPUStats.SystemUsage = st.PreCPUStats.SystemUsage =>
                /\ cpuPercent(st) = Finite(0)
                /\ (\A y \in DOMAIN mh.recorded : y > x => LabelsOf(mh.recorded[y].stats) # LabelsOf(st))
                      => dm[LabelsOf(st)] = Finite(0)

\* C19: no sample is recorded that came from a task that reported an error, and
\* when the response is sent every task has one outcome that was taken once: one
\* recorded sample or one error of the batch.
C19_OneOutcomePerTask ==
    /\ \A x \in DOMAIN mh.recorded : tasks[mh.recorded[x].task].errs = 0
    /\ (mh.pc = "done" /\ mh.body # "Could not list containers") =>
          \A t \in DOMAIN tasks :
              Cardinality(RecordedOf(t)) + Cardinality(BatchedOf(t)) = 1

\* the handler has read remove_unwanted_containers, update_check
HasReadRemove(r) == r.pc \notin {"idle", "readRemove"}

HasReadUpdate(r) == r.pc \notin {"idle", "readRemove", "pruneList", "dcStop", "dcRemove", "readUpdate"}
                       \/ (r.pc \in {"dcStop", "dcRemove"} /\ r.site # "prune")

\* C15: the two flags a pass has used are those of the configuration from
\* which it took its container list, also when a /reload is served meanwhile.
C15_OneSnapshot ==
    \A p \in Handlers :
        /\ (HasReadRemove(h[p]) /\ h[p].pc # "fatal") =>
              h[p].removeUnwanted = h[p].cfg0.AppConfig.RemoveUnwantedContainers
        /\ (HasReadUpdate(h[p]) /\ h[p].pc # "fatal") =>
              h[p].updateCheck = h[p].cfg0.AppConfig.UpdateCheck

\* C16: a /reload that fails for a missing or unparsable file leaves the
\* configuration as it was, and the service goes on serving triggers.
C16_FailedReloadKeepsServing ==
    /\ [](rl.err # "" => alive)
    /\ [][(rl' # rl /\ rl'.err # "") => cfg' = cfg]_vars

\* C17: the caller of a trigger of which an operation failed has received a
\* server error with the error text, and the service is still there.
C17_FailureIsAnswered ==
    /\ \A p \in Handlers :
          h[p].pc = "fatal" => (alive /\ h[p].status = 500)
    /\ rl.err # "" => (alive /\ rl.status = 500 /\ rl.body = rl.err)
    /\ (mh.pc = "done" /\ mh.status # 200) => (alive /\ mh.status = 500 /\ mh.body # "")

\* C18: the desired list of a pass is the conversion of the configuration that
\* was active at its trigger: one entry per declared container, in the declared
\* order, and nothing else.
C18_DesiredFromActiveConfig ==
    \A p \in Handlers :
        h[p].pc # "idle" => h[p].desired = Declared(h[p].cfg0)

\* a step of a recreate failed: the stop or the remove of DeleteContainer, or
\* the list or the create of CreateContainer
RecreateFailedAt(r, steps) ==
    /\ r.pc = "fatal"
    /\ r.site \in {"ecc", "fresh"}
    /\ r.failedAt \in steps

\* the creates of the recreate the handler is in
CreatesOfRecreate(r) ==
    { x \in DOMAIN r.log : r.log[x].op = "create" /\ r.log[x].site = r.site /\ r.log[x].i = r.i }

AllTasksDone ==
    /\ Len(tasks) = Len(mh.containers)
    /\ \A t \in DOMAIN tasks : tasks[t].pc = "done"

\* C21: a channel is closed only when every task has finished, so no task
\* stands before a send on a closed channel; the handler is past the draining
\* of the samples only when every task has finished, and the number of errors
\* it then reads is the number of errors sent.
C21_ClosedAfterAllTasks ==
    /\ (statsChan.closed \/ errChan.closed) => AllTasksDone
    /\ \A t \in DOMAIN tasks :
          /\ tasks[t].pc = "sendErr" => ~ errChan.closed
          /\ tasks[t].pc = "sendStats" => ~ statsChan.closed
    /\ mh.pc \in {"lenErr", "rangeErr"} => AllTasksDone
    /\ mh.pc = "lenErr" =>
          /\ Len(mh.recorded) = statsChan.sent
          /\ Len(errChan.buf) = errChan.sent

\* the handler reads the number of errors of a scrape of two containers in
\* which samples and errors were sent
C21_Witness ==
    /\ mh.pc = "lenErr"
    /\ Len(tasks) >= 2
    /\ statsChan.sent >= 1
    /\ errChan.sent >= 1

\* C22: a scrape in which neither the handler nor a goroutine can take a step
\* has sent its response: the handler does not wait for ever on the samples
\* channel, whatever the number of containers and whichever calls failed.
C22_ScrapeResponds ==
    (~ ENABLED NextMetrics) => mh.pc = "done"

\* a create is about to be issued by p for a name that a container bears
CreateCollides(p) ==
    /\ h[p].pc \in {"ccCreate", "eccCreate"}
    /\ Bearing(engine, h[p].desired[h[p].i].Name) # {}

\* a stop, remove or start is about to be issued by p against an id the engine lost
TargetGone(p) ==
    \/ h[p].pc \in {"dcStop", "dcRemove"} /\ IndexOfId(engine, h[p].delId) = 0
    \/ h[p].pc = "start" /\ IndexOfId(engine, h[p].ctid) = 0

\* p is between the entry of the conversion and its return
Appending(p) == h[p].pc \in {"appendRead", "appendWrite", "converted"}

\* C23: with nobody but this program changing the engine, two passes served
\* at once do not interfere: no create is issued for a name a container
\* already bears, no stop, remove or start is issued against an id the
\* other pass removed, and no two passes append to the shared desired
\* list at the same time.
C23_PassesDoNotInterfere ==
    /\ \A p \in DOMAIN h : ~ CreateCollides(p) /\ ~ TargetGone(p)
    /\ \A p, q \in DOMAIN h : (p # q /\ Appending(p)) => ~ Appending(q)

====
